---------------------------- MODULE Spec2Model ----------------------------
(***************************************************************************)
(* A model of the PDF toolkit backend (src/main.py).                       *)
(*                                                                         *)
(* Two parts of the program are modelled:                                  *)
(*   - the page-range resolvers that split_pdf, rotate_pdf and             *)
(*     organize_pdf each implement on their own (SpecRange);               *)
(*   - the life of the files a request stages under UPLOAD_DIR and         *)
(*     OUTPUT_DIR, for concurrently handled requests (SpecFiles).          *)
(*                                                                         *)
(* A Python str is a sequence of one-character strings, so that split(),   *)
(* strip() and int() are computed the way Python computes them.            *)
(***************************************************************************)
EXTENDS Integers, Sequences, FiniteSets, TLC

VARIABLES
    op,            \* the range-resolving handler that ran ("idle" before)
    pages,         \* the form field pages / page_order
    delete_pages,  \* the form field delete_pages (organize only)
    total_pages,   \* len(reader.pages)
    outcome,       \* what the handler's parsing code produced
    archive,       \* the ZIP archive split_pdf built from the selection
    merged,        \* what merge_pdfs made of the archive's entries
    rotated_pages, \* the pages rotate_pdf wrote
    fs,            \* the files that exist under UPLOAD_DIR and OUTPUT_DIR
    next_uuid,     \* the number of uuid.uuid4() values drawn so far
    req,           \* per request: where its handler is and what it holds
    concurrent,    \* a request was received while the other was being handled
    rot,           \* a document going through rotate_pdf, request after request
    txt            \* a request to edit_pdf, add_watermark or add_page_numbers

rangeVars ==
    <<op, pages, delete_pages, total_pages, outcome, archive, merged,
      rotated_pages>>

fileVars == <<fs, next_uuid, req, concurrent>>

\* the state of the handlers modelled further down
restVars == <<rot, txt>>

vars == <<rangeVars, fileVars, restVars>>

-----------------------------------------------------------------------------
(* Bounds of the model.                                                    *)

\* longest pages / page_order string enumerated character by character
MaxLen == 3
\* longest delete_pages string enumerated character by character
MaxDelLen == 1
\* largest document, in pages
MaxPages == 3
\* most files uploaded with one merge request
MaxFiles == 2
\* most pages convert_from_path renders for pdf-to-ppt
MaxSlides == 1
\* the chunks a file response is transmitted in
MaxChunks == 2

-----------------------------------------------------------------------------
(* Python strings.                                                         *)

\* the characters the enumerated strings are made of
Chars == {"0", "1", "2", "-", ",", " ", "a"}

Str(n) == UNION {[1..k -> Chars] : k \in 0..n}

\* the literal "all"
ALL == <<"a", "l", "l">>

\* strings of the specification's examples, longer than MaxLen
Examples ==
    { ALL,
      <<"2", ",", "1", ",", "3">>,
      <<"1", "-", "2", ",", "1">>,
      <<"0", "-", "2", ",", "2">>,
      <<" ", "1", " ", "-", " ", "2", " ">>,
      <<"1", "-", "2", "-", "3">>,
      <<"3", "-", "1">>,
      <<"1", "-", "3">>,
      <<"3">> }

DelExamples ==
    { <<"1", "-", "2">>, <<"2", ",", "3">>, <<"3", "-", "1">> }

PageStrings == Str(MaxLen) \cup Examples

DeleteStrings == Str(MaxDelLen) \cup DelExamples

\* str.split(sep): the pieces between the separators, "" included
RECURSIVE py_split(_, _)
py_split(s, sep) ==
    IF \A i \in 1..Len(s) : s[i] # sep
    THEN <<s>>
    ELSE LET k == CHOOSE i \in 1..Len(s) :
                      s[i] = sep /\ \A j \in 1..(i - 1) : s[j] # sep
         IN  <<SubSeq(s, 1, k - 1)>> \o py_split(SubSeq(s, k + 1, Len(s)), sep)

\* str.strip(): the string without its leading and trailing whitespace
RECURSIVE py_strip(_)
py_strip(s) ==
    IF s = <<>> THEN s
    ELSE IF Head(s) = " " THEN py_strip(Tail(s))
    ELSE IF s[Len(s)] = " " THEN py_strip(SubSeq(s, 1, Len(s) - 1))
    ELSE s

\* "-" in part
py_in(c, s) == \E i \in 1..Len(s) : s[i] = c

Digits == {"0", "1", "2", "3", "4", "5", "6", "7", "8", "9"}

DigitVal(c) ==
    CASE c = "0" -> 0 [] c = "1" -> 1 [] c = "2" -> 2 [] c = "3" -> 3
      [] c = "4" -> 4 [] c = "5" -> 5 [] c = "6" -> 6 [] c = "7" -> 7
      [] c = "8" -> 8 [] c = "9" -> 9

RECURSIVE DecVal(_)
DecVal(s) == IF s = <<>> THEN 0
             ELSE 10 * DecVal(SubSeq(s, 1, Len(s) - 1)) + DigitVal(s[Len(s)])

\* int() raised ValueError.  The strings these handlers hand to int() hold no
\* "-" (the part is split on it first, or has none), so int() never returns
\* a negative number here and -1 is free to stand for the exception.
ValueError == -1

\* int(s): surrounding whitespace is ignored; what is left must be a
\* non-empty run of decimal digits (a sign never reaches int(), see above)
py_int(s) ==
    LET t == py_strip(s)
    IN  IF t # <<>> /\ \A i \in 1..Len(t) : t[i] \in Digits
        THEN DecVal(t)
        ELSE ValueError

\* list(range(a, b))
py_range(a, b) == IF b > a THEN [i \in 1..(b - a) |-> a + i - 1] ELSE <<>>

Min(a, b) == IF a < b THEN a ELSE b

SeqToSet(s) == {s[i] : i \in 1..Len(s)}

-----------------------------------------------------------------------------
(* What a handler's parsing code produced: the pages it selected, as the   *)
(* list of indices into reader.pages (rotate: as the set), or the          *)
(* ValueError it raised, or the 400 response it returned before parsing.   *)

Raised == [kind |-> "ValueError", list |-> <<>>, set |-> {}]

BadRequest == [kind |-> "400", list |-> <<>>, set |-> {}]

SelectedList(seq) == [kind |-> "selected", list |-> seq, set |-> SeqToSet(seq)]

SelectedSet(S) == [kind |-> "selected", list |-> <<>>, set |-> S]

\* start, end = map(int, part.split("-")): the two numbers, or <<>> when the
\* unpacking or an int() raises ValueError
py_unpack_pair(part) ==
    LET pieces == py_split(part, "-")
    IN  IF Len(pieces) # 2 THEN <<>>
        ELSE IF py_int(pieces[1]) = ValueError \/ py_int(pieces[2]) = ValueError
             THEN <<>>
             ELSE <<py_int(pieces[1]), py_int(pieces[2])>>

-----------------------------------------------------------------------------
(* split_pdf: the page selection.                                          *)

\* the loop over pages.split(","), selected_pages being the list so far
RECURSIVE split_parts(_, _, _)
split_parts(parts, total, selected_pages) ==
    IF parts = <<>> THEN SelectedList(selected_pages)
    ELSE LET part == py_strip(Head(parts))
         IN  IF py_in("-", part)
             THEN LET se == py_unpack_pair(part)
                  IN  IF se = <<>> THEN Raised
                      ELSE split_parts(Tail(parts), total,
                               selected_pages
                                 \o py_range(se[1] - 1, Min(se[2], total)))
             ELSE LET n == py_int(part)
                      page_num == n - 1
                  IN  IF n = ValueError THEN Raised
                      ELSE split_parts(Tail(parts), total,
                               IF 0 <= page_num /\ page_num < total
                               THEN Append(selected_pages, page_num)
                               ELSE selected_pages)

\* the elements of a set of integers, ascending
RECURSIVE Ascending(_)
Ascending(S) ==
    IF S = {} THEN <<>>
    ELSE LET m == CHOOSE x \in S : \A y \in S : x <= y
         IN  <<m>> \o Ascending(S \ {m})

\* split_pdf collecting the pages in a set, as rotate_pdf does
split_selected_pages_as_set(pgs, total) ==
    LET r == IF pgs = ALL
             THEN SelectedList(py_range(0, total))
             ELSE split_parts(py_split(pgs, ","), total, <<>>)
    IN  IF r.kind = "selected" THEN SelectedList(Ascending(r.set)) ELSE r

split_selected_pages(pgs, total) ==
    IF pgs = ALL
    THEN SelectedList(py_range(0, total))
    ELSE split_parts(py_split(pgs, ","), total, <<>>)

\* reader.pages[page_num]: a negative index counts from the end, an index
\* outside the document raises IndexError (stated here as the page -1)
reader_page(page_num, total) ==
    IF 0 <= page_num /\ page_num < total THEN page_num
    ELSE IF -total <= page_num /\ page_num < 0 THEN total + page_num
    ELSE -1

NoArchive == [kind |-> "none", entries |-> <<>>]

\* the loop with every entry named after the index instead of the page number
split_archive_named_by_index(selected_pages, total) ==
    IF \E k \in 1..Len(selected_pages) : reader_page(selected_pages[k], total) = -1
    THEN [kind |-> "IndexError", entries |-> <<>>]
    ELSE [kind |-> "zip",
          entries |-> [k \in 1..Len(selected_pages) |->
                         [name |-> selected_pages[k],
                          doc |-> <<reader_page(selected_pages[k], total)>>]]]

\* the loop over selected_pages: one entry per selected page, named
\* page_{page_num + 1}.pdf, holding a document of that one page
split_archive(selected_pages, total) ==
    IF \E k \in 1..Len(selected_pages) : reader_page(selected_pages[k], total) = -1
    THEN [kind |-> "IndexError", entries |-> <<>>]
    ELSE [kind |-> "zip",
          entries |-> [k \in 1..Len(selected_pages) |->
                         [name |-> selected_pages[k] + 1,
                          doc |-> <<reader_page(selected_pages[k], total)>>]]]

\* the loop over files and over reader.pages: every page of every file, in
\* the order of the files
RECURSIVE merge_pages(_)
merge_pages(docs) ==
    IF docs = <<>> THEN <<>> ELSE Head(docs) \o merge_pages(Tail(docs))

NotMerged == [status |-> 0, pages |-> <<>>]

\* merge_pdfs on the uploaded documents
merge_documents(docs) ==
    IF Len(docs) < 2
    THEN [status |-> 400, pages |-> <<>>]
    ELSE [status |-> 200, pages |-> merge_pages(docs)]

-----------------------------------------------------------------------------
(* rotate_pdf: the page selection, a set.                                  *)

RECURSIVE rotate_parts(_, _, _)
rotate_parts(parts, total, selected_pages) ==
    IF parts = <<>> THEN SelectedSet(selected_pages)
    ELSE LET part == py_strip(Head(parts))
         IN  IF py_in("-", part)
             THEN LET se == py_unpack_pair(part)
                  IN  IF se = <<>> THEN Raised
                      ELSE rotate_parts(Tail(parts), total,
                               selected_pages
                                 \cup ((se[1] - 1)..(Min(se[2], total) - 1)))
             ELSE LET n == py_int(part)
                      page_num == n - 1
                  IN  IF n = ValueError THEN Raised
                      ELSE rotate_parts(Tail(parts), total,
                               IF 0 <= page_num /\ page_num < total
                               THEN selected_pages \cup {page_num}
                               ELSE selected_pages)

rotate_selected_pages(pgs, total) ==
    IF pgs = ALL
    THEN SelectedSet(0..(total - 1))
    ELSE rotate_parts(py_split(pgs, ","), total, {})

\* page.rotate(rotation), as the PDF library does it: an angle that is not
\* a multiple of 90 raises ValueError, any other is added to the page's
\* /Rotate entry
page_rotate(page, rotation) ==
    IF rotation % 90 # 0 THEN [err |-> TRUE, page |-> page]
    ELSE [err |-> FALSE, page |-> [page EXCEPT !.rotate = page.rotate + rotation]]

\* the loop that writes the selected pages only
rotate_pages_selected_only(doc, selected_pages, rotation) ==
    IF \E i \in 0..(Len(doc) - 1) :
           i \in selected_pages /\ page_rotate(doc[i + 1], rotation).err
    THEN [err |-> TRUE, pages |-> <<>>]
    ELSE LET kept == Ascending({i \in 0..(Len(doc) - 1) : i \in selected_pages})
         IN  [err |-> FALSE,
              pages |-> [k \in 1..Len(kept) |->
                           page_rotate(doc[kept[k] + 1], rotation).page]]

\* the loop over enumerate(reader.pages): every page is added to the
\* writer, a page whose index is in selected_pages after page.rotate
rotate_pages(doc, selected_pages, rotation) ==
    IF \E i \in 0..(Len(doc) - 1) :
           i \in selected_pages /\ page_rotate(doc[i + 1], rotation).err
    THEN [err |-> TRUE, pages |-> <<>>]
    ELSE [err |-> FALSE,
          pages |-> [k \in 1..Len(doc) |->
                       IF (k - 1) \in selected_pages
                       THEN page_rotate(doc[k], rotation).page
                       ELSE doc[k]]]

\* a document as PdfReader gives it: page k - 1 at place k
Page(id, rotate) == [id |-> id, rotate |-> rotate]

NotRotated == [rotation |-> 0, err |-> FALSE, pages |-> <<>>]

RECURSIVE Occurrences(_, _)
Occurrences(seq, x) ==
    IF seq = <<>> THEN 0
    ELSE (IF Head(seq) = x THEN 1 ELSE 0) + Occurrences(Tail(seq), x)

RECURSIVE rotate_times(_, _, _)
rotate_times(page, rotation, n) ==
    IF n = 0 THEN page
    ELSE rotate_times(page_rotate(page, rotation).page, rotation, n - 1)

\* the try block with the selection kept as a list, as split_pdf keeps it,
\* and page.rotate called for every occurrence of a page in it
rotate_document_per_occurrence(file, pgs, rotation) ==
    LET sel == split_selected_pages(pgs, Len(file))
    IN  IF sel.kind # "selected" \/
           (rotation % 90 # 0 /\
            \E i \in 0..(Len(file) - 1) : Occurrences(sel.list, i) > 0)
        THEN [rotation |-> rotation, err |-> TRUE, pages |-> <<>>]
        ELSE [rotation |-> rotation, err |-> FALSE,
              pages |-> [k \in 1..Len(file) |->
                           rotate_times(file[k], rotation,
                                        Occurrences(sel.list, k - 1))]]

\* the try block of rotate_pdf: the selection, then the loop over the pages
rotate_document(file, pgs, rotation) ==
    LET sel == rotate_selected_pages(pgs, Len(file))
        out == IF sel.kind = "selected"
               THEN rotate_pages(file, sel.set, rotation)
               ELSE [err |-> TRUE, pages |-> <<>>]
    IN  [rotation |-> rotation, err |-> out.err, pages |-> out.pages]

-----------------------------------------------------------------------------
(* organize_pdf: the pages to delete, the new order, the pages written.    *)

\* what a parsing loop of organize_pdf left: its collection, or ValueError
Parsed(v) == [err |-> FALSE, val |-> v]

ParseError == [err |-> TRUE, val |-> <<>>]

\* the loop over delete_pages.split(","), pages_to_delete being the set so far
RECURSIVE organize_delete_parts(_, _)
organize_delete_parts(parts, pages_to_delete) ==
    IF parts = <<>> THEN Parsed(pages_to_delete)
    ELSE LET part == py_strip(Head(parts))
         IN  IF py_in("-", part)
             THEN LET se == py_unpack_pair(part)
                  IN  IF se = <<>> THEN ParseError
                      ELSE organize_delete_parts(Tail(parts),
                               pages_to_delete \cup (se[1]..se[2]))
             ELSE LET n == py_int(part)
                  IN  IF n = ValueError THEN ParseError
                      ELSE organize_delete_parts(Tail(parts),
                               pages_to_delete \cup {n})

\* "if delete_pages:" guards the loop
organize_pages_to_delete(del) ==
    IF del = <<>> THEN Parsed({})
    ELSE organize_delete_parts(py_split(del, ","), {})

\* the loop over page_order.split(","), new_order being the list so far
RECURSIVE organize_order_parts(_, _)
organize_order_parts(parts, new_order) ==
    IF parts = <<>> THEN Parsed(new_order)
    ELSE LET part == py_strip(Head(parts))
         IN  IF py_in("-", part)
             THEN LET se == py_unpack_pair(part)
                  IN  IF se = <<>> THEN ParseError
                      ELSE organize_order_parts(Tail(parts),
                               new_order \o py_range(se[1], se[2] + 1))
             ELSE LET n == py_int(part)
                  IN  IF n = ValueError THEN ParseError
                      ELSE organize_order_parts(Tail(parts), Append(new_order, n))

organize_new_order(order) == organize_order_parts(py_split(order, ","), <<>>)

\* organize_pdf looking up the index, not the page number, in pages_to_delete
RECURSIVE organize_add_pages_by_index(_, _, _)
organize_add_pages_by_index(new_order, pages_to_delete, total) ==
    IF new_order = <<>> THEN <<>>
    ELSE LET page_num == Head(new_order)
             rest == organize_add_pages_by_index(Tail(new_order),
                                                 pages_to_delete, total)
         IN  IF (page_num - 1) \in pages_to_delete THEN rest
             ELSE IF 1 <= page_num /\ page_num <= total
                  THEN <<page_num - 1>> \o rest
                  ELSE rest

\* the loop over new_order: the indices of reader.pages handed to add_page
RECURSIVE organize_add_pages(_, _, _)
organize_add_pages(new_order, pages_to_delete, total) ==
    IF new_order = <<>> THEN <<>>
    ELSE LET page_num == Head(new_order)
             rest == organize_add_pages(Tail(new_order), pages_to_delete, total)
         IN  IF page_num \in pages_to_delete THEN rest
             ELSE IF 1 <= page_num /\ page_num <= total
                  THEN <<page_num - 1>> \o rest
                  ELSE rest

\* "if not page_order:" answers 400 before the file is read
organize_written(order, del, total) ==
    IF order = <<>> THEN BadRequest
    ELSE LET to_delete == organize_pages_to_delete(del)
             new_order == organize_new_order(order)
         IN  IF to_delete.err \/ new_order.err THEN Raised
             ELSE SelectedList(
                      organize_add_pages(new_order.val, to_delete.val, total))

-----------------------------------------------------------------------------
(* The handlers, as far as they resolve a page range.                      *)

InitRange ==
    /\ op = "idle"
    /\ pages = <<>>
    /\ delete_pages = <<>>
    /\ total_pages = 0
    /\ outcome = BadRequest
    /\ archive = NoArchive
    /\ merged = NotMerged
    /\ rotated_pages = NotRotated

split_pdf ==
    /\ op = "idle"
    /\ \E p \in PageStrings, t \in 0..MaxPages :
          /\ op' = "split"
          /\ pages' = p
          /\ delete_pages' = <<>>
          /\ total_pages' = t
          /\ outcome' = split_selected_pages(p, t)
          /\ archive' = IF split_selected_pages(p, t).kind = "selected"
                        THEN split_archive(split_selected_pages(p, t).list, t)
                        ELSE NoArchive
    /\ UNCHANGED <<merged, rotated_pages>>
    /\ UNCHANGED <<fileVars, restVars>>

rotate_pdf ==
    /\ op = "idle"
    /\ \E p \in PageStrings, t \in 0..MaxPages :
          /\ op' = "rotate"
          /\ pages' = p
          /\ delete_pages' = <<>>
          /\ total_pages' = t
          /\ outcome' = rotate_selected_pages(p, t)
          /\ \E rotation \in {90, 180} :
                 rotated_pages' = rotate_document([k \in 1..t |-> Page(k - 1, 0)],
                                            p, rotation)
    /\ UNCHANGED <<archive, merged>>
    /\ UNCHANGED <<fileVars, restVars>>

organize_pdf ==
    /\ op = "idle"
    /\ \E p \in PageStrings, d \in DeleteStrings, t \in 0..MaxPages :
          /\ op' = "organize"
          /\ pages' = p
          /\ delete_pages' = d
          /\ total_pages' = t
          /\ outcome' = organize_written(p, d, t)
    /\ UNCHANGED <<archive, merged, rotated_pages>>
    /\ UNCHANGED <<fileVars, restVars>>

\* the entries of the archive split_pdf returned are uploaded, in the
\* archive's order, to merge_pdfs
merge_pdfs ==
    /\ op = "split"
    /\ archive.kind = "zip"
    /\ op' = "merged"
    /\ merged' = merge_documents([k \in 1..Len(archive.entries) |->
                                    archive.entries[k].doc])
    /\ UNCHANGED <<pages, delete_pages, total_pages, outcome, archive, rotated_pages>>
    /\ UNCHANGED <<fileVars, restVars>>

NextRange == split_pdf \/ rotate_pdf \/ organize_pdf \/ merge_pdfs

-----------------------------------------------------------------------------
(* Staged files.  A path is <<directory, kind of name, number>>.           *)
(* uuid.uuid4() is taken never to repeat: the n-th value drawn is n.       *)

Reqs == {"r1", "r2"}

NoPath == <<>>

\* save_upload_file: UPLOAD_DIR / f"{uuid.uuid4()}_{filename}"
upload_path(n) == <<"uploads", "uuid", n>>

\* generate_filename: f"{prefix}_{timestamp}_{unique_id}.{extension}", under
\* OUTPUT_DIR
generate_filename(n) == <<"outputs", "generated", n>>

\* pdf_to_powerpoint: UPLOAD_DIR / f"temp_slide_{i}.png"
img_path(i) == <<"uploads", "temp_slide", i>>

\* word_to_pdf: OUTPUT_DIR / (temp_path.stem + ".pdf"), what LibreOffice
\* writes for the upload saved as upload_path(n)
converted_path(temp_path) == <<"outputs", "converted", temp_path[3]>>

\* cleanup_file: the file is unlinked if it exists; nothing is raised
cleanup_file(files, filepath) == files \ {filepath}

\* the endpoints modelled, one per shape of handler:
\*   merge        several uploads saved inside the try, an output file
\*                (jpg-to-pdf has the same shape)
\*   split        one upload, the response built in memory (pdf-to-jpg,
\*                pdf-info, preview have the same shape)
\*   pdf_to_word  one upload, an output file written by a library call
\*                (pdf-to-excel, edit-pdf, watermark, rotate, organize,
\*                page-numbers, unlock have the same shape)
\*   pdf_to_ppt   as pdf_to_word, with a temporary image per slide
\*   word_to_pdf  one upload, the output written by LibreOffice and moved
\*                (ppt-to-pdf, excel-to-pdf are the same code)
\*   html_to_pdf  no upload, an output file, every exception caught
Endpoints == {"merge", "split", "pdf_to_word", "pdf_to_ppt", "word_to_pdf",
              "html_to_pdf"}

\* the handler has returned or raised, and the response, if a file, is closed
Terminal == {"returned", "raised", "closed"}

\* the handler itself has returned or raised
HandlerLeft == Terminal \cup {"transmitting"}

NewRequest ==
    [ endpoint |-> "none",
      pc |-> "idle",
      files |-> 0,            \* uploads of the request not yet saved
      temp_files |-> <<>>,    \* the paths the handler will clean up
      saved |-> {},           \* the paths save_upload_file has written
      released |-> <<>>,      \* the paths handed to cleanup_file, in order
      output_path |-> NoPath,
      outputs |-> {},         \* the paths created under OUTPUT_DIR
      touched |-> {},         \* the paths created, written or deleted
      slides |-> 0,           \* len(images) in pdf_to_powerpoint
      i |-> 0,                \* the slide being made
      exc |-> FALSE,          \* an exception is propagating
      on_close |-> FALSE,     \* response.call_on_close(cleanup) was registered
      status |-> 0,
      sent |-> 0,             \* chunks of the response transmitted
      converter_runs |-> 0,   \* subprocess.run calls
      detail |-> "" ]         \* the detail of the handler's own 500 answer

InitFiles ==
    /\ fs = {}
    /\ next_uuid = 0
    /\ req = [r \in Reqs |-> NewRequest]
    /\ concurrent = FALSE

InProgress(r) == req[r].pc \notin {"idle"} \cup Terminal

\* the request arrives: the "if not file" / "len(files) < 2" test, n being
\* the number of files (html_to_pdf: whether a url is) in the form
receive(r) ==
    /\ req[r].pc = "idle"
    /\ \E e \in Endpoints, n \in 0..MaxFiles :
          LET enough == IF e = "merge" THEN n >= 2 ELSE n >= 1
          IN  req' = [req EXCEPT ![r] =
                 [@ EXCEPT !.endpoint = e,
                           !.files = IF ~enough THEN 0
                                     ELSE IF e = "merge" THEN n
                                     ELSE IF e = "html_to_pdf" THEN 0 ELSE 1,
                           !.status = IF enough THEN 0 ELSE 400,
                           !.pc = IF ~enough THEN "returned"
                                  ELSE IF e = "html_to_pdf" THEN "write"
                                  ELSE "save"]]
    /\ concurrent' = (concurrent \/ \E q \in Reqs \ {r} : InProgress(q))
    /\ UNCHANGED <<fs, next_uuid, rangeVars, restVars>>

\* an exception leaves the handler's try block: through finally, if the
\* statement is inside one
raise_in_try(rq) == [rq EXCEPT !.exc = TRUE, !.pc = "finally"]

raise_outside_try(rq) == [rq EXCEPT !.exc = TRUE, !.status = 500, !.pc = "raised"]

\* where the handler goes once its upload is saved
after_save(e) ==
    CASE e = "merge" -> "open"
      [] e = "split" -> "process"
      [] e = "pdf_to_word" -> "write"
      [] e = "pdf_to_ppt" -> "process"
      [] e = "word_to_pdf" -> "convert"

\* temp_path = save_upload_file(file).  upload_file.save() opens the path
\* for writing and copies the stream into it: it may raise before the file
\* exists, or with the file partly written.  Only merge calls it inside the
\* try, and appends to temp_files after it returned.
save_upload_file(r) ==
    /\ req[r].pc = "save"
    /\ LET file_path == upload_path(next_uuid)
           e == req[r].endpoint
           raise(rq) == IF e = "merge" THEN raise_in_try(rq)
                        ELSE raise_outside_try(rq)
       IN  \/ /\ fs' = fs \cup {file_path}
              /\ req' = [req EXCEPT ![r] =
                    [@ EXCEPT !.saved = @ \cup {file_path},
                              !.touched = @ \cup {file_path},
                              !.temp_files = Append(@, file_path),
                              !.files = @ - 1,
                              !.pc = after_save(e)]]
           \/ /\ fs' = fs \cup {file_path}
              /\ req' = [req EXCEPT ![r] =
                    raise([@ EXCEPT !.saved = @ \cup {file_path},
                                    !.touched = @ \cup {file_path}])]
           \/ /\ fs' = fs
              /\ req' = [req EXCEPT ![r] = raise(@)]
    /\ next_uuid' = next_uuid + 1
    /\ UNCHANGED <<concurrent, rangeVars, restVars>>

\* merge_pdfs: PdfReader(str(temp_path)) and the add_page loop, then the
\* next file
merge_read(r) ==
    /\ req[r].pc = "open"
    /\ \/ req' = [req EXCEPT ![r] =
             [@ EXCEPT !.pc = IF req[r].files > 0 THEN "save" ELSE "write"]]
       \/ req' = [req EXCEPT ![r] = raise_in_try(@)]
    /\ UNCHANGED <<fs, next_uuid, concurrent, rangeVars, restVars>>

\* the library call that reads the upload: split_pdf builds its archive in
\* memory and returns it; pdf_to_powerpoint gets its images
process(r) ==
    /\ req[r].pc = "process"
    /\ \/ /\ req[r].endpoint = "split"
          /\ req' = [req EXCEPT ![r] = [@ EXCEPT !.status = 200, !.pc = "finally"]]
       \/ /\ req[r].endpoint = "pdf_to_ppt"
          /\ \E k \in 0..MaxSlides :
                req' = [req EXCEPT ![r] =
                   [@ EXCEPT !.slides = k, !.i = 0,
                             !.pc = IF k > 0 THEN "slide_save" ELSE "write"]]
       \/ req' = [req EXCEPT ![r] = raise_in_try(@)]
    /\ UNCHANGED <<fs, next_uuid, concurrent, rangeVars, restVars>>

\* pdf_to_powerpoint: img.save(str(img_path), "PNG")
slide_save(r) ==
    /\ req[r].pc = "slide_save"
    /\ fs' = fs \cup {img_path(req[r].i)}
    /\ req' = [req EXCEPT ![r] =
          [@ EXCEPT !.touched = @ \cup {img_path(req[r].i)}, !.pc = "slide_add"]]
    /\ UNCHANGED <<next_uuid, concurrent, rangeVars, restVars>>

\* pdf_to_powerpoint: slide.shapes.add_picture(str(img_path), ...), which
\* raises when the file is gone, then cleanup_file(img_path)
slide_add_picture(r) ==
    /\ req[r].pc = "slide_add"
    /\ LET p == img_path(req[r].i)
       IN  IF p \in fs
           THEN /\ fs' = cleanup_file(fs, p)
                /\ req' = [req EXCEPT ![r] =
                      [@ EXCEPT !.i = @ + 1,
                                !.pc = IF req[r].i + 1 < req[r].slides
                                       THEN "slide_save" ELSE "write"]]
           ELSE /\ fs' = fs
                /\ req' = [req EXCEPT ![r] = raise_in_try(@)]
    /\ UNCHANGED <<next_uuid, concurrent, rangeVars, restVars>>

\* the output file is written at generate_filename's path: writer.write,
\* cv.convert, prs.save, pdfkit.from_url.  The call may raise before the
\* file exists, or with the file partly written.  html_to_pdf catches the
\* exception and answers 500; it has no finally.
write_output(r) ==
    /\ req[r].pc = "write"
    /\ LET out == generate_filename(next_uuid)
           raise(rq) == IF rq.endpoint = "html_to_pdf"
                        THEN [rq EXCEPT !.status = 500, !.pc = "returned"]
                        ELSE raise_in_try(rq)
           made(rq) == [rq EXCEPT !.output_path = out,
                                  !.outputs = @ \cup {out},
                                  !.touched = @ \cup {out}]
       IN  \/ /\ fs' = fs \cup {out}
              /\ req' = [req EXCEPT ![r] = [made(@) EXCEPT !.pc = "send"]]
           \/ /\ fs' = fs \cup {out}
              /\ req' = [req EXCEPT ![r] = raise(made(@))]
           \/ /\ fs' = fs
              /\ req' = [req EXCEPT ![r] = raise([@ EXCEPT !.output_path = out])]
    /\ next_uuid' = next_uuid + 1
    /\ UNCHANGED <<concurrent, rangeVars, restVars>>

\* word_to_pdf: subprocess.run(["libreoffice", ...], timeout=120) and the
\* three ways the handler answers 500 itself.  The converter returns with
\* the converted file written (on to shutil.move) or without it
\* ("Conversion failed"); or subprocess.run raises TimeoutExpired, the file
\* written or not ("Conversion timed out"), or FileNotFoundError
\* ("LibreOffice not installed").  after_timeout is where the handler goes
\* from "except subprocess.TimeoutExpired".
convert_outcomes(r, after_timeout) ==
    /\ req[r].pc = "convert"
    /\ LET conv == converted_path(req[r].temp_files[1])
           ran(rq) == [rq EXCEPT !.converter_runs = @ + 1,
                                 !.output_path = generate_filename(next_uuid)]
           wrote(rq) == [rq EXCEPT !.outputs = @ \cup {conv},
                                   !.touched = @ \cup {conv}]
           failed(rq, detail, pc) ==
               [rq EXCEPT !.status = 500, !.detail = detail, !.pc = pc]
       IN  \/ /\ fs' = fs \cup {conv}
              /\ req' = [req EXCEPT ![r] = [wrote(ran(@)) EXCEPT !.pc = "move"]]
           \/ /\ fs' = fs
              /\ req' = [req EXCEPT ![r] =
                    failed(ran(@), "Conversion failed", "finally")]
           \/ /\ fs' = fs
              /\ req' = [req EXCEPT ![r] =
                    failed(ran(@), "Conversion timed out", after_timeout)]
           \/ /\ fs' = fs \cup {conv}
              /\ req' = [req EXCEPT ![r] =
                    failed(wrote(ran(@)), "Conversion timed out", after_timeout)]
           \/ /\ fs' = fs
              /\ req' = [req EXCEPT ![r] =
                    failed(ran(@), "LibreOffice not installed", "finally")]
    /\ next_uuid' = next_uuid + 1
    /\ UNCHANGED <<concurrent, rangeVars, restVars>>

\* a handler that runs the converter a second time after a timeout
libreoffice_convert_retrying(r) ==
    convert_outcomes(r, IF req[r].converter_runs = 0 THEN "convert" ELSE "finally")

\* word_to_pdf (ppt_to_pdf and excel_to_pdf are the same code): after a
\* timeout the handler returns its 500 answer through finally
libreoffice_convert(r) ==
    convert_outcomes(r, "finally")

\* word_to_pdf: shutil.move(str(converted_path), str(output_path))
move_converted(r) ==
    /\ req[r].pc = "move"
    /\ LET conv == converted_path(req[r].temp_files[1])
           out == req[r].output_path
       IN  /\ fs' = (fs \ {conv}) \cup {out}
           /\ req' = [req EXCEPT ![r] =
                 [@ EXCEPT !.outputs = @ \cup {out},
                           !.touched = @ \cup {out},
                           !.pc = "send"]]
    /\ UNCHANGED <<next_uuid, concurrent, rangeVars, restVars>>

\* response = send_file(output_path, ...) and @response.call_on_close; the
\* handler then returns the response.  send_file may raise.
send_file(r) ==
    /\ req[r].pc = "send"
    /\ \/ req' = [req EXCEPT ![r] =
             [@ EXCEPT !.on_close = TRUE, !.status = 200,
                       !.pc = IF req[r].endpoint = "html_to_pdf"
                              THEN "transmitting" ELSE "finally"]]
       \/ req' = [req EXCEPT ![r] =
             IF @.endpoint = "html_to_pdf"
             THEN [@ EXCEPT !.status = 500, !.pc = "returned"]
             ELSE raise_in_try(@)]
    /\ UNCHANGED <<fs, next_uuid, concurrent, rangeVars, restVars>>

\* cleanup_file over a list of paths
RECURSIVE cleanup_files(_, _)
cleanup_files(files, paths) ==
    IF paths = <<>> THEN files
    ELSE cleanup_files(cleanup_file(files, Head(paths)), Tail(paths))

\* a finally block that releases the output file with the uploads
finally_cleanup_output_too(r) ==
    /\ req[r].pc = "finally"
    /\ fs' = cleanup_file(cleanup_files(fs, req[r].temp_files), req[r].output_path)
    /\ req' = [req EXCEPT ![r] =
          [@ EXCEPT !.released = @ \o req[r].temp_files,
                    !.touched = @ \cup SeqToSet(req[r].temp_files),
                    !.status = IF req[r].exc THEN 500 ELSE @,
                    !.pc = IF req[r].exc THEN "raised"
                           ELSE IF req[r].on_close THEN "transmitting"
                           ELSE "returned"]]
    /\ UNCHANGED <<next_uuid, concurrent, rangeVars, restVars>>

\* the handler's finally block: cleanup_file on temp_path, or on every path
\* of temp_files; then the return or the exception takes effect
finally_cleanup(r) ==
    /\ req[r].pc = "finally"
    /\ fs' = cleanup_files(fs, req[r].temp_files)
    /\ req' = [req EXCEPT ![r] =
          [@ EXCEPT !.released = @ \o req[r].temp_files,
                    !.touched = @ \cup SeqToSet(req[r].temp_files),
                    !.status = IF req[r].exc THEN 500 ELSE @,
                    !.pc = IF req[r].exc THEN "raised"
                           ELSE IF req[r].on_close THEN "transmitting"
                           ELSE "returned"]]
    /\ UNCHANGED <<next_uuid, concurrent, rangeVars, restVars>>

\* the server sends one more chunk of the file response
transmit(r) ==
    /\ req[r].pc = "transmitting"
    /\ req[r].sent < MaxChunks
    /\ req' = [req EXCEPT ![r] = [@ EXCEPT !.sent = @ + 1]]
    /\ UNCHANGED <<fs, next_uuid, concurrent, rangeVars, restVars>>

\* the server closes the response, after the last chunk or when the client
\* has gone: the call_on_close callback runs cleanup_file(output_path)
response_close(r) ==
    /\ req[r].pc = "transmitting"
    /\ fs' = cleanup_file(fs, req[r].output_path)
    /\ req' = [req EXCEPT ![r] =
          [@ EXCEPT !.released = Append(@, req[r].output_path),
                    !.touched = @ \cup {req[r].output_path},
                    !.pc = "closed"]]
    /\ UNCHANGED <<next_uuid, concurrent, rangeVars, restVars>>

NextFiles ==
    \E r \in Reqs :
        \/ receive(r)
        \/ save_upload_file(r)
        \/ merge_read(r)
        \/ process(r)
        \/ slide_save(r)
        \/ slide_add_picture(r)
        \/ write_output(r)
        \/ libreoffice_convert(r)
        \/ move_converted(r)
        \/ send_file(r)
        \/ finally_cleanup(r)
        \/ transmit(r)
        \/ response_close(r)

-----------------------------------------------------------------------------
(* rotate_pdf, applied to a document request after request: the file of    *)
(* the first request is any document, the file of a later request is the   *)
(* document the request before it returned.  A page is its index in the    *)
(* first document and its /Rotate entry.                                   *)

MaxRotPages == 2
MaxSteps == 2

\* the values of the form field "rotation" tried
Rotations == {90, 180, 270, 360, -90, 45}

\* the values of the form field "pages" tried
RotateStrings ==
    { ALL,
      <<"1">>, <<"2">>, <<"1", "-", "2">>, <<"0", "-", "1">>,
      <<"2", ",", "1">>, <<"1", ",", "1">>, <<"a">> }

RECURSIVE Documents(_)
Documents(n) ==
    IF n = 0 THEN {<<>>}
    ELSE Documents(n - 1) \cup
         {Append(d, [id |-> Len(d), rotate |-> r]) :
              d \in {e \in Documents(n - 1) : Len(e) = n - 1}, r \in {0, 90}}

NoRotateRequest ==
    [kind |-> "none", before |-> <<>>, selected |-> {}, rotation |-> 0]

InitRotate ==
    rot = [doc |-> <<>>, orig |-> <<>>, applied |-> <<>>, steps |-> 0,
           last |-> NoRotateRequest]

rotate_request ==
    /\ rot.steps < MaxSteps
    /\ \E file \in (IF rot.steps = 0 THEN Documents(MaxRotPages) ELSE {rot.doc}),
          p \in RotateStrings, rotation \in Rotations :
          LET sel == rotate_selected_pages(p, Len(file))
              out == IF sel.kind = "selected"
                     THEN rotate_pages(file, sel.set, rotation)
                     ELSE [err |-> TRUE, pages |-> <<>>]
              ok == ~out.err
              orig == IF rot.steps = 0 THEN file ELSE rot.orig
              applied == IF rot.steps = 0 THEN [k \in 1..Len(file) |-> 0]
                         ELSE rot.applied
          IN  rot' = [doc |-> IF ok THEN out.pages ELSE file,
                      orig |-> orig,
                      applied |-> IF ok
                                  THEN [k \in 1..Len(file) |->
                                          IF (k - 1) \in sel.set
                                          THEN applied[k] + rotation
                                          ELSE applied[k]]
                                  ELSE applied,
                      steps |-> rot.steps + 1,
                      last |-> [kind |-> IF ok THEN "ok" ELSE "ValueError",
                                before |-> file,
                                selected |-> sel.set,
                                rotation |-> rotation]]
    /\ UNCHANGED <<rangeVars, fileVars, txt>>

NextRotate == rotate_request

-----------------------------------------------------------------------------
(* edit_pdf, add_watermark and add_page_numbers: the colour a text is      *)
(* drawn in, the pages it is drawn on, and the text itself.  A channel is  *)
(* kept as its numerator n, the value the code passes on being n / 255.    *)

MaxColorLen == 6
MaxTextPages == 2

ColorChars == {"#", "f", "z", "-", " "}

RECURSIVE ColorStr(_)
ColorStr(n) ==
    IF n = 0 THEN {<<>>}
    ELSE ColorStr(n - 1) \cup
         {Append(c, ch) : c \in {d \in ColorStr(n - 1) : Len(d) = n - 1},
                          ch \in ColorChars}

BLACK == <<"#", "0", "0", "0", "0", "0", "0">>

ColorExamples ==
    { BLACK, <<"#", "8", "8", "8", "8", "8", "8">>, <<"z", "z", "0", "0", "0", "0">>, <<"#", "f", "f", "0", "0", "f", "f">>,
      <<"f", "f", "f", "f", "f", "f", "f">>, <<"#", "#", "f", "f", "f", "f", "f", "f">>, <<"+", "f", "+", "f", "+", "f">>,
      <<"a", "b", "c">>, <<"f", "f", "f", "f">> }

Colors == ColorStr(MaxColorLen) \cup ColorExamples

HexDigits ==
    {"0", "1", "2", "3", "4", "5", "6", "7", "8", "9",
     "a", "b", "c", "d", "e", "f", "A", "B", "C", "D", "E", "F"}

HexDigitVal(c) ==
    CASE c = "0" -> 0 [] c = "1" -> 1 [] c = "2" -> 2 [] c = "3" -> 3
      [] c = "4" -> 4 [] c = "5" -> 5 [] c = "6" -> 6 [] c = "7" -> 7
      [] c = "8" -> 8 [] c = "9" -> 9
      [] c \in {"a", "A"} -> 10 [] c \in {"b", "B"} -> 11
      [] c \in {"c", "C"} -> 12 [] c \in {"d", "D"} -> 13
      [] c \in {"e", "E"} -> 14 [] c \in {"f", "F"} -> 15

RECURSIVE HexVal(_)
HexVal(s) ==
    IF s = <<>> THEN 0
    ELSE 16 * HexVal(SubSeq(s, 1, Len(s) - 1)) + HexDigitVal(s[Len(s)])

\* s.lstrip("#"): every leading "#" goes
RECURSIVE py_lstrip_hash(_)
py_lstrip_hash(s) ==
    IF s # <<>> /\ Head(s) = "#" THEN py_lstrip_hash(Tail(s)) ELSE s

\* s[a:b] for 0 <= a <= b
py_slice(s, a, b) ==
    IF a >= Len(s) THEN <<>> ELSE SubSeq(s, a + 1, Min(b, Len(s)))

\* int(s, 16): surrounding whitespace is dropped, one sign and a "0x"
\* prefix are allowed, at least one hex digit has to follow. (Underscores
\* between digits need three characters and never fit a slice of two.)
py_int16(s) ==
    LET t == py_strip(s)
        signed == t # <<>> /\ Head(t) \in {"+", "-"}
        u == IF signed THEN Tail(t) ELSE t
        prefixed == Len(u) >= 2 /\ u[1] = "0" /\ u[2] \in {"x", "X"}
        digits == IF prefixed THEN SubSeq(u, 3, Len(u)) ELSE u
    IN  IF digits = <<>> \/ \E k \in 1..Len(digits) : digits[k] \notin HexDigits
        THEN ParseError
        ELSE Parsed(IF signed /\ Head(t) = "-" THEN 0 - HexVal(digits)
                    ELSE HexVal(digits))

\* "# Parse color": the three channels, or the ValueError of int
parse_color(color) ==
    LET color_hex == py_lstrip_hash(color)
        r == py_int16(py_slice(color_hex, 0, 2))
        g == py_int16(py_slice(color_hex, 2, 4))
        b == py_int16(py_slice(color_hex, 4, 6))
    IN  IF r.err \/ g.err \/ b.err THEN ParseError
        ELSE Parsed(<<r.val, g.val, b.val>>)

\* str(n)
RECURSIVE py_str_nat(_)
py_str_nat(n) ==
    LET d == <<"0", "1", "2", "3", "4", "5", "6", "7", "8", "9">>[(n % 10) + 1]
    IN  IF n < 10 THEN <<d>> ELSE Append(py_str_nat(n \div 10), d)

py_str(n) == IF n < 0 THEN <<"-">> \o py_str_nat(0 - n) ELSE py_str_nat(n)

\* s.replace(old, new) for a non-empty old: left to right, not overlapping
RECURSIVE py_replace(_, _, _)
py_replace(s, old, new) ==
    IF Len(s) < Len(old) THEN s
    ELSE IF SubSeq(s, 1, Len(old)) = old
         THEN new \o py_replace(SubSeq(s, Len(old) + 1, Len(s)), old, new)
         ELSE <<Head(s)>> \o py_replace(Tail(s), old, new)

\* s.lower() on the letters used here
py_lower(s) ==
    [k \in 1..Len(s) |->
        CASE s[k] = "T" -> "t" [] s[k] = "Y" -> "y" [] OTHER -> s[k]]

N_PLACEHOLDER == <<"{", "n", "}">>
TOTAL_PLACEHOLDER == <<"{", "t", "o", "t", "a", "l", "}">>

\* the values of the form field "format_str" tried
Templates ==
    { <<"{", "n", "}", "/", "{", "t", "o", "t", "a", "l", "}">>,
      <<"{", "n", "}">>, <<"p", "{", "n", "}">>, <<"{", "t", "o", "t", "a", "l", "}">>, <<"x">>, <<"{", "n", "}", "{", "n", "}">> }

\* the values of the form field "skip_first" tried
SkipStrings ==
    { <<"t", "r", "u", "e">>, <<"T", "r", "u", "e">>, <<"1">>, <<"y", "e", "s">>, <<"f", "a", "l", "s", "e">>, <<"n", "o">> }

\* skip_first = request.form.get("skip_first", "false").lower() in (...)
skip_first_of(s) == py_lower(s) \in {<<"t", "r", "u", "e">>, <<"1">>, <<"y", "e", "s">>}

NoStamps(total) == [k \in 1..total |-> <<>>]

\* what a handler left behind: the response, the texts inserted on each
\* page of doc, whether doc.save wrote the output, whether the staged
\* upload is still on disk
TextResult(kind, status, rgb, stamps, saved) ==
    [kind |-> kind, status |-> status, rgb |-> rgb, stamps |-> stamps,
     saved |-> saved, temp_exists |-> FALSE]

\* the text of one insert_text call and the colour it is drawn in
Stamp(text, rgb) == [text |-> text, color |-> rgb]

\* page.insert_text(..., color=(r, g, b)): the library refuses a channel
\* outside 0 .. 1 with ValueError
insert_text_raises(rgb) == \E k \in 1..3 : rgb[k] < 0 \/ rgb[k] > 255

\* edit_pdf with the page check starting at 0
edit_pdf_response_from_zero(page_num, total, text_color, text) ==
    IF page_num < 0 \/ page_num > total
    THEN TextResult("400", 400, <<>>, NoStamps(total), FALSE)
    ELSE LET c == parse_color(text_color)
         IN  IF c.err
             THEN TextResult("ValueError", 500, <<>>, NoStamps(total), FALSE)
             ELSE IF text # <<>> /\ insert_text_raises(c.val)
             THEN TextResult("ValueError", 500, c.val, NoStamps(total), FALSE)
             ELSE TextResult("ok", 200, c.val,
                             [k \in 1..total |->
                                 IF k - 1 = page_num - 1 /\ text # <<>>
                                 THEN <<Stamp(text, c.val)>> ELSE <<>>],
                             TRUE)

\* edit_pdf from fitz.open on: the page check, the colour, insert_text on
\* doc[page_num - 1] if there is a text, doc.save; the finally clause
\* removes the staged upload on every way out
edit_pdf_response(page_num, total, text_color, text) ==
    IF page_num < 1 \/ page_num > total
    THEN TextResult("400", 400, <<>>, NoStamps(total), FALSE)
    ELSE LET c == parse_color(text_color)
         IN  IF c.err
             THEN TextResult("ValueError", 500, <<>>, NoStamps(total), FALSE)
             ELSE IF text # <<>> /\ insert_text_raises(c.val)
             THEN TextResult("ValueError", 500, c.val, NoStamps(total), FALSE)
             ELSE TextResult("ok", 200, c.val,
                             [k \in 1..total |->
                                 IF k - 1 = page_num - 1 /\ text # <<>>
                                 THEN <<Stamp(text, c.val)>> ELSE <<>>],
                             TRUE)

\* add_watermark from fitz.open on: the colour, insert_text on every page
add_watermark_response(total, color, text) ==
    LET c == parse_color(color)
    IN  IF c.err
        THEN TextResult("ValueError", 500, <<>>, NoStamps(total), FALSE)
        ELSE IF total > 0 /\ insert_text_raises(c.val)
        THEN TextResult("ValueError", 500, c.val, NoStamps(total), FALSE)
        ELSE TextResult("ok", 200, c.val,
                        [k \in 1..total |-> <<Stamp(text, c.val)>>], TRUE)

\* the text drawn on the page of index i
page_number_text(format_str, page_num, total) ==
    py_replace(py_replace(format_str, N_PLACEHOLDER, py_str(page_num)),
               TOTAL_PLACEHOLDER, py_str(total))

\* add_page_numbers without "page_num -= 1"
add_page_numbers_no_decrement(total, color, start_number, skip_first, format_str) ==
    LET c == parse_color(color)
    IN  IF c.err
        THEN TextResult("ValueError", 500, <<>>, NoStamps(total), FALSE)
        ELSE IF insert_text_raises(c.val) /\
                (\E k \in 1..total : ~(skip_first /\ k - 1 = 0))
        THEN TextResult("ValueError", 500, c.val, NoStamps(total), FALSE)
        ELSE TextResult("ok", 200, c.val,
                 [k \in 1..total |->
                     IF skip_first /\ k - 1 = 0 THEN <<>>
                     ELSE <<Stamp(page_number_text(format_str,
                                      start_number + (k - 1), total), c.val)>>],
                 TRUE)

\* add_page_numbers from fitz.open on: the colour, then the loop over
\* enumerate(doc)
add_page_numbers_response(total, color, start_number, skip_first, format_str) ==
    LET c == parse_color(color)
    IN  IF c.err
        THEN TextResult("ValueError", 500, <<>>, NoStamps(total), FALSE)
        ELSE IF insert_text_raises(c.val) /\
                (\E k \in 1..total : ~(skip_first /\ k - 1 = 0))
        THEN TextResult("ValueError", 500, c.val, NoStamps(total), FALSE)
        ELSE TextResult("ok", 200, c.val,
                 [k \in 1..total |->
                     IF skip_first /\ k - 1 = 0 THEN <<>>
                     ELSE <<Stamp(page_number_text(format_str,
                                      IF skip_first
                                      THEN start_number + (k - 1) - 1
                                      ELSE start_number + (k - 1),
                                      total), c.val)>>],
                 TRUE)

\* the values of the form field "text" tried
Texts == {<<>>, <<"h", "i">>}

InitText ==
    txt = [op |-> "idle", color |-> <<>>, total |-> 0, page_num |-> 0,
           text |-> <<>>, start_number |-> 0, skip_first |-> <<>>,
           format_str |-> <<>>,
           result |-> TextResult("none", 0, <<>>, <<>>, FALSE)]

edit_pdf ==
    /\ txt.op = "idle"
    /\ \E page_num \in (-1)..(MaxTextPages + 1), total \in 0..MaxTextPages,
          text_color \in ColorExamples, text \in Texts :
          txt' = [txt EXCEPT !.op = "edit", !.color = text_color,
                             !.total = total, !.page_num = page_num,
                             !.text = text,
                             !.result = edit_pdf_response(page_num, total,
                                                          text_color, text)]
    /\ UNCHANGED <<rangeVars, fileVars, rot>>

add_watermark ==
    /\ txt.op = "idle"
    /\ \E total \in 0..MaxTextPages, color \in Colors :
          txt' = [txt EXCEPT !.op = "watermark", !.color = color,
                             !.total = total, !.text = <<"W">>,
                             !.result = add_watermark_response(total, color,
                                                               <<"W">>)]
    /\ UNCHANGED <<rangeVars, fileVars, rot>>

add_page_numbers ==
    /\ txt.op = "idle"
    /\ \E total \in 0..MaxTextPages, color \in {BLACK, <<"z", "z">>},
          start_number \in (-1)..2, skip \in SkipStrings,
          format_str \in Templates :
          txt' = [txt EXCEPT !.op = "numbers", !.color = color,
                             !.total = total, !.start_number = start_number,
                             !.skip_first = skip, !.format_str = format_str,
                             !.result = add_page_numbers_response(total, color,
                                            start_number, skip_first_of(skip),
                                            format_str)]
    /\ UNCHANGED <<rangeVars, fileVars, rot>>

NextText == edit_pdf \/ add_watermark \/ add_page_numbers

InitRest ==
    /\ InitRotate
    /\ InitText

Init == InitRange /\ InitFiles /\ InitRest

\* concurrently handled requests and their files
SpecFiles == Init /\ [][NextFiles]_vars

\* one request to a handler that resolves a page range
SpecRange == Init /\ [][NextRange]_vars

SpecRotate == Init /\ [][NextRotate]_vars

SpecText == Init /\ [][NextText]_vars

-----------------------------------------------------------------------------
(* The range grammar of the specification, stated on its own: what a range *)
(* string means, whatever a handler does with it.                          *)

\* the tokens of a range string, whitespace trimmed
RECURSIVE StripAll(_)
StripAll(parts) ==
    IF parts = <<>> THEN <<>> ELSE <<py_strip(Head(parts))>> \o StripAll(Tail(parts))

Tokens(s) == StripAll(py_split(s, ","))

IsNumber(tok) == tok # <<>> /\ \A i \in 1..Len(tok) : tok[i] \in Digits

\* a token "start-end": exactly one hyphen, a number on each side
IsPair(tok) ==
    /\ Cardinality({i \in 1..Len(tok) : tok[i] = "-"}) = 1
    /\ LET h == CHOOSE i \in 1..Len(tok) : tok[i] = "-"
       IN  /\ IsNumber(py_strip(SubSeq(tok, 1, h - 1)))
           /\ IsNumber(py_strip(SubSeq(tok, h + 1, Len(tok))))

PairStart(tok) ==
    LET h == CHOOSE i \in 1..Len(tok) : tok[i] = "-"
    IN  DecVal(py_strip(SubSeq(tok, 1, h - 1)))

PairEnd(tok) ==
    LET h == CHOOSE i \in 1..Len(tok) : tok[i] = "-"
    IN  DecVal(py_strip(SubSeq(tok, h + 1, Len(tok))))

\* a string made of integers and start-end pairs
IsRangeString(s) == \A i \in 1..Len(Tokens(s)) :
                        IsNumber(Tokens(s)[i]) \/ IsPair(Tokens(s)[i])

\* a token the grammar of the specification accepts: a positive integer, or
\* a pair of positive integers
IsValidToken(tok) ==
    \/ IsNumber(tok) /\ DecVal(tok) >= 1
    \/ IsPair(tok) /\ PairStart(tok) >= 1 /\ PairEnd(tok) >= 1

\* a pair whose start is greater than its end
IsInvertedPair(tok) == IsPair(tok) /\ PairStart(tok) > PairEnd(tok)

\* the 1-based page numbers a token names, ascending
TokenPages(tok) ==
    IF IsPair(tok)
    THEN [i \in 1..(PairEnd(tok) - PairStart(tok) + 1) |-> PairStart(tok) + i - 1]
    ELSE <<DecVal(tok)>>

\* the 1-based page numbers a range string names, token after token
RECURSIVE ExpandTokens(_)
ExpandTokens(toks) ==
    IF toks = <<>> THEN <<>>
    ELSE TokenPages(Head(toks)) \o ExpandTokens(Tail(toks))

Expansion(s) == ExpandTokens(Tokens(s))

ExpansionSet(s) == IF s = <<>> THEN {} ELSE SeqToSet(Expansion(s))

\* the elements of seq that are in S, in the order and number seq has them
RECURSIVE Restrict(_, _)
Restrict(seq, S) ==
    IF seq = <<>> THEN <<>>
    ELSE IF Head(seq) \in S THEN <<Head(seq)>> \o Restrict(Tail(seq), S)
    ELSE Restrict(Tail(seq), S)

\* page numbers to indices of reader.pages
ZeroBased(seq) == [i \in 1..Len(seq) |-> seq[i] - 1]

Document == 0..(total_pages - 1)

Resolved == op \in {"split", "rotate", "organize"}

\* organize_pdf was given a delete_pages that does not fail by itself
DeleteGiven == delete_pages = <<>> \/ IsRangeString(delete_pages)

-----------------------------------------------------------------------------
(* The claims about page ranges.                                           *)

\* C5: for every range string made of integers and start-end pairs, every
\* index split, rotate and organize resolve is in 0 .. total_pages-1, and no
\* token makes the handler raise.
C5_IndicesInDocument ==
    (Resolved /\ IsRangeString(pages) /\ DeleteGiven)
        => /\ outcome.kind = "selected"
           /\ outcome.set \subseteq Document

\* C6: the range "all" resolves to exactly 0 .. total_pages-1, ascending, in
\* split, rotate and organize (page_order).
C6_AllResolvesToEveryPage ==
    (Resolved /\ pages = ALL /\ delete_pages = <<>>)
        => /\ outcome.kind = "selected"
           /\ outcome.set = Document
           /\ op # "rotate" => outcome.list = py_range(0, total_pages)

\* C7: a token whose start is greater than its end makes split, rotate and
\* organize fail; it is not resolved to a selection.
C7_InvertedPairFails ==
    (Resolved /\ \E i \in 1..Len(Tokens(pages)) : IsInvertedPair(Tokens(pages)[i]))
        => outcome.kind # "selected"

\* C8: a range string with a token that is neither a positive integer nor a
\* pair of positive integers ("0", a negative number, an empty token, a
\* non-numeric token, more than one hyphen) makes the handler fail.
C8_MalformedTokenFails ==
    (/\ Resolved
     /\ pages # ALL
     /\ \E i \in 1..Len(Tokens(pages)) : ~IsValidToken(Tokens(pages)[i]))
        => outcome.kind # "selected"

C10_OrganizeWrites ==
    /\ (op = "organize" /\ outcome.kind = "selected")
          => outcome.list =
                ZeroBased(Restrict(Expansion(pages),
                                   (1..total_pages) \ ExpansionSet(delete_pages)))
    /\ (/\ op = "organize"
        /\ pages = <<"2", ",", "1", ",", "3">>
        /\ delete_pages = <<"1">>
        /\ total_pages = 3)
          => outcome = SelectedList(<<1, 2>>)

C10_Witness ==
    /\ op = "organize"
    /\ pages = <<"2", ",", "1", ",", "3">>
    /\ delete_pages = <<"1">>
    /\ total_pages = 3
    /\ outcome.kind = "selected"
    /\ outcome.list = <<1, 2>>

-----------------------------------------------------------------------------
(* The claims about staged files.                                          *)

\* the number of times path p was handed to cleanup_file
Releases(rq, p) == Cardinality({k \in 1..Len(rq.released) : rq.released[k] = p})

\* C1: once the handler has returned or raised, every file save_upload_file
\* wrote for the request has been released exactly once and is gone,
\* whatever the exit path.
C1_InputsReleased ==
    \A r \in Reqs :
        req[r].pc \in HandlerLeft
            => \A p \in req[r].saved : p \notin fs /\ Releases(req[r], p) = 1

\* C2: once a request is over (its response closed, or failed), no file it
\* created under the output directory remains.
C2_NoOutputRemains ==
    \A r \in Reqs :
        req[r].pc \in Terminal => req[r].outputs \cap fs = {}

\* C3: on a request that returns a file, the output file exists from the
\* moment the response is built, for as long as the response is being
\* transmitted, and is gone once the response is closed, also when the close
\* comes from a client that went away before the last chunk.
C3_OutputLivesUntilClose ==
    \A r \in Reqs :
        /\ (req[r].on_close /\ req[r].pc \in {"finally", "transmitting"})
              => req[r].output_path \in fs
        /\ req[r].pc = "closed"
              => /\ req[r].output_path \notin fs
                 /\ Releases(req[r], req[r].output_path) = 1

\* one response closed by a disconnect, its file gone; the other fully
\* transmitted and not yet closed, its file still there
C3_Witness ==
    /\ req["r1"].pc = "closed"
    /\ req["r1"].sent < MaxChunks
    /\ req["r1"].output_path \notin fs
    /\ req["r2"].pc = "transmitting"
    /\ req["r2"].sent = MaxChunks
    /\ req["r2"].output_path \in fs

\* C4: two requests handled concurrently create, write and delete disjoint
\* sets of paths.
C4_PathsDisjoint ==
    concurrent =>
        \A r, q \in Reqs : r # q => req[r].touched \cap req[q].touched = {}

-----------------------------------------------------------------------------
(* Splitting into single pages and merging them again.                     *)

\* split_pdf was asked for "all" and answered with an archive
SplitAll == op \in {"split", "merged"} /\ pages = ALL

\* the archive has one entry per page of the document, entry k is named
\* page_k and holds page k alone
OneEntryPerPage ==
    /\ archive.kind = "zip"
    /\ Len(archive.entries) = total_pages
    /\ \A k \in 1..Len(archive.entries) :
           /\ archive.entries[k].name = k
           /\ archive.entries[k].doc = <<k - 1>>
    /\ \A j, k \in 1..Len(archive.entries) :
           j # k => archive.entries[j].name # archive.entries[k].name

\* C18 as stated: split with pages = "all" gives N entries page_1 .. page_N
\* of one page each, no two with the same name, and merging the N entries
\* in that order gives a document of exactly N pages, for every N.
C18_SplitAllThenMerge ==
    SplitAll =>
        /\ OneEntryPerPage
        /\ op = "merged" =>
               merged.status = 200 /\ Len(merged.pages) = total_pages

\* C18: split with pages = "all" gives N entries page_1 .. page_N of one
\* page each, no two with the same name; merging the N entries in that
\* order gives the N pages in their original order when N >= 2, and is
\* refused with status 400 when N < 2.
C18_SplitAllThenMergeTwoOrMore ==
    SplitAll =>
        /\ OneEntryPerPage
        /\ op = "merged" =>
               IF total_pages >= 2
               THEN /\ merged.status = 200
                    /\ merged.pages = [k \in 1..total_pages |-> k - 1]
               ELSE merged.status = 400 /\ merged.pages = <<>>

C18_Witness ==
    /\ op = "merged"
    /\ pages = ALL
    /\ total_pages = 3
    /\ Len(archive.entries) = 3
    /\ merged.status = 200
    /\ Len(merged.pages) = 3

-----------------------------------------------------------------------------
(* The three resolvers compared on the same input.                         *)

\* C19: on every range string and page count, the sequence split resolves
\* is the sequence organize resolves with no deletions, and the pages
\* rotate rotates are the pages of that sequence; a request one of them
\* fails, all of them fail. ("all" is split's and rotate's word only, and
\* organize refuses an empty page_order: both are left out.)
C19_ResolversAgree ==
    (op = "split" /\ pages # ALL /\ pages # <<>>) =>
        LET organized == organize_written(pages, <<>>, total_pages)
            rotated == rotate_selected_pages(pages, total_pages)
        IN  /\ (outcome.kind = "selected") = (organized.kind = "selected")
            /\ (outcome.kind = "selected") = (rotated.kind = "selected")
            /\ outcome.kind = "selected" =>
                   /\ outcome.list = organized.list
                   /\ rotated.set \cap Document = SeqToSet(organized.list)

-----------------------------------------------------------------------------
(* Rotation.                                                               *)

\* C11: a rotate request that succeeds returns every page of the document
\* it was given, in the order it was given; a page outside the selection
\* keeps its rotation, a page in the selection has the requested degrees
\* added to it.
C11_RotateKeepsPagesAndOrder ==
    rot.last.kind = "ok" =>
        /\ Len(rot.doc) = Len(rot.last.before)
        /\ \A k \in 1..Len(rot.doc) :
               /\ rot.doc[k].id = rot.last.before[k].id
               /\ rot.doc[k].rotate =
                      IF (k - 1) \in rot.last.selected
                      THEN rot.last.before[k].rotate + rot.last.rotation
                      ELSE rot.last.before[k].rotate

C11_Witness ==
    /\ rot.last.kind = "ok"
    /\ rot.last.before = <<[id |-> 0, rotate |-> 0], [id |-> 1, rotate |-> 90]>>
    /\ rot.last.selected = {1}
    /\ rot.last.rotation = 90
    /\ rot.doc = <<[id |-> 0, rotate |-> 0], [id |-> 1, rotate |-> 180]>>

\* C12: a page's rotation accumulates modulo 360: once the degrees applied
\* to a page sum to a multiple of 360, its rotation is the one it started
\* with.
C12_RotationModulo360 ==
    \A k \in 1..Len(rot.doc) :
        rot.applied[k] % 360 = 0 => rot.doc[k].rotate = rot.orig[k].rotate

-----------------------------------------------------------------------------
(* Page numbers, colours, and the page edit_pdf writes on.                 *)

\* the number of the stamp on the page of index i
NumberOnPage(i) ==
    IF skip_first_of(txt.skip_first) THEN txt.start_number + i - 1
    ELSE txt.start_number + i

\* C13: page-numbering that succeeds stamps every page exactly once, the
\* page of index i with start_number + i, "{total}" being the page count;
\* with skip_first the page of index 0 gets no stamp and the page of index
\* i >= 1 gets start_number + i - 1.
C13_PageNumbers ==
    (txt.op = "numbers" /\ txt.result.kind = "ok") =>
        /\ Len(txt.result.stamps) = txt.total
        /\ \A i \in 0..(txt.total - 1) :
               IF skip_first_of(txt.skip_first) /\ i = 0
               THEN txt.result.stamps[i + 1] = <<>>
               ELSE /\ Len(txt.result.stamps[i + 1]) = 1
                    /\ txt.result.stamps[i + 1][1].text =
                          py_replace(
                              py_replace(txt.format_str, N_PLACEHOLDER,
                                         py_str(NumberOnPage(i))),
                              TOTAL_PLACEHOLDER, py_str(txt.total))

C13_Witness ==
    /\ txt.op = "numbers"
    /\ txt.result.kind = "ok"
    /\ txt.total = 2
    /\ txt.start_number = 2
    /\ txt.skip_first = <<"t", "r", "u", "e">>
    /\ txt.format_str = <<"{", "n", "}", "/", "{", "t", "o", "t", "a", "l", "}">>
    /\ txt.result.stamps[1] = <<>>
    /\ txt.result.stamps[2][1].text = <<"2", "/", "2">>

SixHexDigits(s) == Len(s) = 6 /\ \A k \in 1..6 : s[k] \in HexDigits

\* C14: a colour that is not exactly six hexadecimal digits once its
\* leading "#" is removed is never accepted.
C14_OnlySixHexDigitsAccepted ==
    (txt.op \in {"edit", "watermark", "numbers"} /\ txt.result.kind = "ok") =>
        SixHexDigits(py_lstrip_hash(txt.color))

\* C20: whenever the colour is parsed, each channel is an integer from 0
\* to 255 (over 255): none is negative, none is above 1.
C20_ChannelsInUnitInterval ==
    txt.result.rgb # <<>> =>
        \A k \in 1..3 : txt.result.rgb[k] \in 0..255

-----------------------------------------------------------------------------
(* Failures and the external converter.                                    *)

\* C15: no failure leaves a handler as an unhandled exception: every
\* request that fails ends with a response the handler made itself.
C15_NoUnhandledException ==
    \A r \in Reqs : req[r].pc # "raised"

\* the converter timed out or is not installed
ConverterGaveUp(r) ==
    req[r].detail \in {"Conversion timed out", "LibreOffice not installed"}

\* C17: the converter is started at most once per request; after a timeout
\* or with no converter installed the request ends with status 500, the
\* converter is not started again and no output file is returned.
C17_ConverterOnceNoRetry ==
    \A r \in Reqs :
        /\ req[r].converter_runs <= 1
        /\ ConverterGaveUp(r) =>
               /\ req[r].pc \in {"finally", "returned"}
               /\ req[r].status = 500
               /\ ~req[r].on_close
               /\ req[r].sent = 0
               /\ req[r].output_path \notin req[r].outputs

C17_Witness ==
    \E r \in Reqs :
        /\ req[r].endpoint = "word_to_pdf"
        /\ req[r].detail = "Conversion timed out"
        /\ req[r].converter_runs = 1
        /\ req[r].pc = "returned"
        /\ req[r].status = 500

-----------------------------------------------------------------------------
(* Rotation of a page named several times.                                 *)

\* C21: a rotate request that succeeds adds the requested degrees exactly
\* once to every page its pages string selects, however often the string
\* names the page, and never to a page more than once.
C21_RotatedAtMostOnce ==
    (op = "rotate" /\ outcome.kind = "selected" /\ ~rotated_pages.err) =>
        /\ Len(rotated_pages.pages) = total_pages
        /\ \A i \in Document :
               rotated_pages.pages[i + 1].rotate =
                   IF i \in outcome.set THEN rotated_pages.rotation ELSE 0

\* page 1 is named by a range and by a token of its own
C21_Witness ==
    /\ op = "rotate"
    /\ pages = <<"1", "-", "2", ",", "1">>
    /\ total_pages = 2
    /\ rotated_pages.rotation = 90
    /\ rotated_pages.pages = <<Page(0, 90), Page(1, 90)>>

=============================================================================
